---- MODULE Spec2Model ----
(***************************************************************************)
(* InstanceWriter: a single coordinating goroutine (run) that reads        *)
(* batches from InputChan, filters them, buffers them in a ring buffer and *)
(* hands them to SendFunc in concurrent batches, at most MaxRequests at a  *)
(* time.  Producers, send goroutines, the canceller of the context and a   *)
(* caller of WaitForShutdown run concurrently with it.                     *)
(***************************************************************************)
EXTENDS Integers, Sequences, FiniteSets, TLC

\* Bounds of the model.
MaxRecords == 3
MaxBatchLen == 2

\* The writers explored: <<MaxBuffered, MaxRequests, MaxBatchSize,
\* cap(InputChan), PreprocessFunc>>.  A capacity of 0 is an unbuffered
\* channel; PreprocessFunc is nil or rejects the records whose field v is 0.
Setups == {<<1, 1, 1, 0, "nil">>, <<1, 1, 1, 0, "filter">>,
           <<1, 1, 1, 1, "nil">>, <<1, 1, 1, 1, "filter">>,
           <<2, 1, 2, 0, "filter">>, <<2, 2, 2, 1, "nil">>,
           <<2, 1, 1, 0, "nil">>, <<1, 1, 2, 0, "nil">>}

VARIABLES
    MaxBuffered, MaxRequests, MaxBatchSize,  \* configuration fields
    PreprocessFunc,                          \* "nil" or "filter"
    inputCap, InputChan,                     \* the channel the user provides
    offer, nextId,                           \* the producer: batch it is sending
    cancelled,                               \* ctx.Done() is closed
    shutdownFlag,                            \* "nil", "open" or "closed"
    pc, retpc, insts,                        \* the coordinator's position
    buff, requestsActive, totalWaiting,
    chunkSliceCache, requestDoneCh,
    sliceMem,                                \* contents of the pooled slices
    tasks,                                   \* the send goroutines
    TotalReceived, TotalFilteredOut, TotalInFlight,
    TotalSent, TotalFailedToSend, TotalOverwritten,
    overwriteCalls,                          \* calls of OverwriteFunc
    waiter,                                  \* the caller of WaitForShutdown
    poolBlocked,                             \* coordinator blocked in getChunkSlice
    reader,                                  \* InternalMetrics: index of its next read
    \* history of the run
    arrived, rejected, dispatched, dropped, deferred, atCancel

vars == <<MaxBuffered, MaxRequests, MaxBatchSize, PreprocessFunc, inputCap,
          InputChan, offer, nextId, cancelled, shutdownFlag, pc, retpc, insts,
          buff, requestsActive, totalWaiting, chunkSliceCache, requestDoneCh,
          tasks, TotalReceived, TotalFilteredOut, TotalInFlight, TotalSent,
          TotalFailedToSend, TotalOverwritten, overwriteCalls, waiter,
          poolBlocked, arrived, rejected, dispatched, dropped, deferred,
          atCancel, reader, sliceMem>>

----------------------------------------------------------------------------
\* Helpers on sequences.

Min(a, b) == IF a < b THEN a ELSE b

RECURSIVE Flatten(_)
Flatten(ss) == IF ss = <<>> THEN <<>> ELSE Head(ss) \o Flatten(Tail(ss))

Range(s) == {s[i] : i \in 1..Len(s)}

Occurrences(s, x) == Cardinality({i \in 1..Len(s) : s[i] = x})

\* s is a subsequence of t, both without repetition: the elements of s are
\* elements of t and keep t's relative order.
IsSubsequence(s, t) ==
    /\ \A i \in 1..Len(s) : Occurrences(s, s[i]) = 1 /\ Occurrences(t, s[i]) = 1
    /\ \A i, j \in 1..Len(s) :
          i < j => \E k, l \in 1..Len(t) : k < l /\ t[k] = s[i] /\ t[l] = s[j]

----------------------------------------------------------------------------
\* The ring buffer (InstanceRingBuffer), from its documented contract: the
\* unprocessed records, oldest first, in a store of fixed size.

NewInstanceRingBuffer(size) == [size |-> size, items |-> <<>>]

UnprocessedCount(b) == Len(b.items)

Size(b) == b.size

\* Add inserts x; on a full buffer the oldest unprocessed record is dropped.
Add(b, x) ==
    IF Len(b.items) >= b.size
    THEN [buff |-> [b EXCEPT !.items = Append(Tail(@), x)],
          overwrote |-> TRUE, lost |-> {Head(b.items)}]
    ELSE [buff |-> [b EXCEPT !.items = Append(@, x)],
          overwrote |-> FALSE, lost |-> {}]

\* NextBatch returns up to max of the oldest unprocessed records, in order.
NextBatch(b, max) ==
    LET n == Min(max, Len(b.items)) IN
    [buff |-> [b EXCEPT !.items = SubSeq(@, n + 1, Len(@))],
     chunk |-> SubSeq(b.items, 1, n)]

----------------------------------------------------------------------------
\* The coordinator's state as one record, so that the handlers compose.

W == [buff |-> buff, requestsActive |-> requestsActive,
      totalWaiting |-> totalWaiting, chunkSliceCache |-> chunkSliceCache,
      requestDoneCh |-> requestDoneCh, tasks |-> tasks,
      TotalReceived |-> TotalReceived, TotalFilteredOut |-> TotalFilteredOut,
      TotalInFlight |-> TotalInFlight, TotalOverwritten |-> TotalOverwritten,
      overwriteCalls |-> overwriteCalls, poolBlocked |-> poolBlocked,
      arrived |-> arrived, rejected |-> rejected,
      dispatched |-> dispatched, dropped |-> dropped,
      deferred |-> deferred, sliceMem |-> sliceMem]

\* The handler's result becomes the next state; the result is computed once.
Commit(result) ==
    \E s \in {result} :
        /\ buff' = s.buff
        /\ requestsActive' = s.requestsActive
        /\ totalWaiting' = s.totalWaiting
        /\ chunkSliceCache' = s.chunkSliceCache
        /\ requestDoneCh' = s.requestDoneCh
        /\ tasks' = s.tasks
        /\ TotalReceived' = s.TotalReceived
        /\ TotalFilteredOut' = s.TotalFilteredOut
        /\ TotalInFlight' = s.TotalInFlight
        /\ TotalOverwritten' = s.TotalOverwritten
        /\ overwriteCalls' = s.overwriteCalls
        /\ poolBlocked' = s.poolBlocked
        /\ arrived' = s.arrived
        /\ rejected' = s.rejected
        /\ dispatched' = s.dispatched
        /\ dropped' = s.dropped
        /\ deferred' = s.deferred
        /\ sliceMem' = s.sliceMem

\* Line 147 one request early.
AtRequestLimitEarly(s) == s.requestsActive + 1 >= MaxRequests

\* line 147: no request slot is free.
AtRequestLimit(s) == s.requestsActive >= MaxRequests

\* Line 168 copying the first record into every slot.
CopyChunkFirst(chunk) == [i \in 1..Len(chunk) |-> chunk[1]]

\* line 168: the batch as copied into the slice handed to SendFunc.
CopyChunk(chunk) == chunk

\* Line 131 reading the slice at the head of the pool without taking it.
PoolAfterPeek(pool) == pool

\* line 131: the receive takes the slice out of the pool.
PoolAfterTake(pool) == Tail(pool)

\* Line 157 comparing with < for ==.
NothingToSendBelowZero(count) == count < 0

\* line 157: NextBatch returned no record.
NothingToSend(count) == count = 0

\* Line 189 with the count read before the batch was taken.
WaitingBeforeBatch(before, after) == UnprocessedCount(before)

\* line 189: totalWaiting is the count left once the batch is taken.
WaitingAfterBatch(before, after) == UnprocessedCount(after)

\* lines 154-189: a batch is taken from the buffer, copied into a slice of
\* the pool and handed to a new send goroutine.  With no slice in the pool
\* the coordinator blocks in getChunkSlice (line 131).
Dispatch(s) ==
    LET nb == NextBatch(s.buff, MaxBatchSize)
        chunk == nb.chunk
        count == Len(chunk)
    IN  IF NothingToSend(count) THEN s
        ELSE IF s.chunkSliceCache = <<>>
        THEN [s EXCEPT !.buff = nb.buff,
                       !.TotalInFlight = @ + count,
                       !.requestsActive = @ + 1,
                       !.poolBlocked = TRUE]
        ELSE [s EXCEPT !.buff = nb.buff,
                       !.TotalInFlight = @ + count,
                       !.requestsActive = @ + 1,
                       !.chunkSliceCache = PoolAfterTake(@),
                       !.sliceMem[Head(s.chunkSliceCache)] = CopyChunk(chunk),
                       !.tasks = @ \cup {[slice |-> Head(s.chunkSliceCache),
                                          chunk |-> CopyChunk(chunk),
                                          st |-> "running"]},
                       !.totalWaiting = WaitingAfterBatch(s.buff, nb.buff),
                       !.dispatched = Append(@, CopyChunk(chunk))]

\* tryToSendChunk without the limit of line 147 and with a fresh slice when
\* the pool has none.
tryToSendChunkNoLimit(s) ==
    LET nb == NextBatch(s.buff, MaxBatchSize)
        chunk == nb.chunk
    IN  IF Len(chunk) = 0 THEN s
        ELSE [s EXCEPT !.buff = nb.buff,
                       !.TotalInFlight = @ + Len(chunk),
                       !.requestsActive = @ + 1,
                       !.chunkSliceCache = IF @ = <<>> THEN @ ELSE Tail(@),
                       !.tasks = @ \cup {[slice |-> IF s.chunkSliceCache = <<>>
                                                    THEN 0
                                                    ELSE Head(s.chunkSliceCache),
                                          chunk |-> chunk,
                                          st |-> "running"]},
                       !.totalWaiting = UnprocessedCount(nb.buff),
                       !.dispatched = Append(@, chunk)]

\* lines 145-190
tryToSendChunk(s) ==
    LET totalUnprocessed == UnprocessedCount(s.buff) IN
    IF s.poolBlocked THEN s
    ELSE IF AtRequestLimit(s)
    THEN [s EXCEPT !.totalWaiting = totalUnprocessed,
                   !.deferred = @ \/ totalUnprocessed > 0]
    ELSE Dispatch(s)

\* Line 239 off by one.
HasWaitingOffByOne(s) == s.totalWaiting > 1

\* line 239: a backlog was recorded.
HasWaiting(s) == s.totalWaiting > 0

\* Line 237 counting the batch as one record.
InFlightAfterDoneByOne(inFlight, count) == inFlight - 1

\* line 237: the records of the completed batch are in flight no more.
InFlightAfterDone(inFlight, count) == inFlight - count

\* lines 235-242
handleRequestDone(s, count) ==
    LET s1 == [s EXCEPT !.requestsActive = @ - 1,
                        !.TotalInFlight = InFlightAfterDone(@, count),
                        !.deferred = FALSE]
    IN  IF s.poolBlocked THEN s
        ELSE IF HasWaiting(s1) THEN tryToSendChunk(s1) ELSE s1

\* The receive of one completion from requestDoneCh, then its handler.
RecvDone(s) ==
    handleRequestDone([s EXCEPT !.requestDoneCh = Tail(@)], Head(s.requestDoneCh))

\* Line 195 without the negation.
RejectsInverted(r) == PreprocessFunc # "nil" /\ r.v # 0

\* line 195: the record is rejected by PreprocessFunc.
Rejects(r) == PreprocessFunc # "nil" /\ r.v = 0

\* Line 217 with > for >=.
BatchReadyAbove(s) == UnprocessedCount(s.buff) > MaxBatchSize

\* line 217: enough records for a batch.
BatchReady(s) == UnprocessedCount(s.buff) >= MaxBatchSize

\* Line 200 with the result of Add negated.
OverwriteCountNegated(overwrote) == IF overwrote THEN 0 ELSE 1

\* lines 200-204: an Add that reports an overwrite is counted once.
OverwriteCount(overwrote) == IF overwrote THEN 1 ELSE 0

\* lines 194-220: the body of processInput's loop for one record.
processOne(s, r) ==
    IF Rejects(r)
    THEN [s EXCEPT !.TotalFilteredOut = @ + 1, !.rejected = @ \cup {r}]
    ELSE LET a == Add(s.buff, r)
             s1 == [s EXCEPT !.buff = a.buff,
                             !.arrived = Append(@, r),
                             !.dropped = @ \cup a.lost,
                             !.TotalOverwritten = @ + OverwriteCount(a.overwrote),
                             !.overwriteCalls = @ + OverwriteCount(a.overwrote)]
             s2 == IF s1.requestDoneCh # <<>> THEN RecvDone(s1) ELSE s1
         IN  IF BatchReady(s2) THEN tryToSendChunk(s2) ELSE s2

----------------------------------------------------------------------------
InitWith(S) ==
    /\ \E c \in S :
          /\ MaxBuffered = c[1] /\ MaxRequests = c[2] /\ MaxBatchSize = c[3]
          /\ inputCap = c[4]
          /\ PreprocessFunc = c[5]
    /\ InputChan = <<>>
    /\ offer = <<>>
    /\ nextId = 1
    /\ cancelled = FALSE
    /\ shutdownFlag = "nil"
    /\ pc = "notStarted"
    /\ retpc = "select"
    /\ insts = <<>>
    /\ buff = NewInstanceRingBuffer(0)
    /\ requestsActive = 0
    /\ totalWaiting = 0
    /\ chunkSliceCache = <<>>
    /\ sliceMem = <<>>
    /\ requestDoneCh = <<>>
    /\ tasks = {}
    /\ TotalReceived = 0
    /\ TotalFilteredOut = 0
    /\ TotalInFlight = 0
    /\ TotalSent = 0
    /\ TotalFailedToSend = 0
    /\ TotalOverwritten = 0
    /\ overwriteCalls = 0
    /\ waiter = "idle"
    /\ poolBlocked = FALSE
    /\ reader = 0
    /\ arrived = <<>>
    /\ rejected = {}
    /\ dispatched = <<>>
    /\ dropped = {}
    /\ deferred = FALSE
    /\ atCancel = [inFlight |-> {}, buffered |-> {}]

Init == InitWith(Setups)

coordVars == <<buff, requestsActive, totalWaiting, chunkSliceCache,
               requestDoneCh, tasks, TotalReceived, TotalFilteredOut,
               TotalInFlight, TotalOverwritten, overwriteCalls, poolBlocked,
               arrived, rejected, dispatched, dropped, deferred, sliceMem>>

\* The configuration, and the reader of the metrics: no step of the writer,
\* of a producer or of a send goroutine changes them.
cfgVars == <<MaxBuffered, MaxRequests, MaxBatchSize, PreprocessFunc, inputCap,
             reader>>

prodVars == <<InputChan, offer, nextId>>

sendCounters == <<TotalSent, TotalFailedToSend>>

----------------------------------------------------------------------------
\* The producer: sends batches of fresh records on InputChan.

\* The batches of n fresh records; the field the filter looks at varies only
\* when there is a filter.
Batches(n) ==
    {[i \in 1..n |-> [id |-> nextId + i - 1, v |-> f[i]]] :
        f \in [1..n -> IF PreprocessFunc = "nil" THEN {1} ELSE {0, 1}]}

\* A producer starts the send of a batch of at most maxLen of the maxRec
\* records on InputChan.
OfferUpTo(maxLen, maxRec) ==
    /\ offer = <<>>
    /\ \E n \in 1..maxLen :
          /\ nextId + n - 1 <= maxRec
          /\ \E b \in Batches(n) : offer' = b
          /\ nextId' = nextId + n
    /\ UNCHANGED <<cfgVars, coordVars, sendCounters, InputChan, cancelled,
                   shutdownFlag, pc, retpc, insts, waiter, atCancel>>

Offer == OfferUpTo(MaxBatchLen, MaxRecords)

\* The send completes into the buffer of a buffered InputChan.
ChanSend ==
    /\ offer # <<>>
    /\ Len(InputChan) < inputCap
    /\ InputChan' = Append(InputChan, offer)
    /\ offer' = <<>>
    /\ UNCHANGED <<cfgVars, coordVars, sendCounters, nextId, cancelled,
                   shutdownFlag, pc, retpc, insts, waiter, atCancel>>

\* A receive from InputChan can proceed: a buffered batch, or a producer
\* blocked in its send on an unbuffered channel.
InputReady == InputChan # <<>> \/ (inputCap = 0 /\ offer # <<>>)

----------------------------------------------------------------------------
\* The context is cancelled.
Cancel ==
    /\ ~cancelled
    /\ cancelled' = TRUE
    /\ atCancel' = [inFlight |-> UNION {Range(t.chunk) : t \in tasks},
                    buffered |-> Range(buff.items)]
    /\ UNCHANGED <<cfgVars, coordVars, sendCounters, prodVars, shutdownFlag,
                   pc, retpc, insts, waiter>>

\* lines 225-233
Start ==
    /\ pc = "notStarted"
    /\ shutdownFlag' = "open"
    /\ pc' = "init"
    /\ UNCHANGED <<cfgVars, coordVars, sendCounters, prodVars, cancelled,
                   retpc, insts, waiter, atCancel>>

\* Line 119 without the check.
ShutdownFlagIsNilNever == FALSE

\* line 119
ShutdownFlagIsNil == shutdownFlag = "nil"

\* lines 118-124: the check of shutdownFlag, then the receive from it.
WaitCall ==
    /\ waiter = "idle"
    /\ waiter' = IF ShutdownFlagIsNil THEN "panicked" ELSE "waiting"
    /\ UNCHANGED <<cfgVars, coordVars, sendCounters, prodVars, cancelled,
                   shutdownFlag, pc, retpc, insts, atCancel>>

WaitReturn ==
    /\ waiter = "waiting"
    /\ shutdownFlag = "closed"
    /\ waiter' = "returned"
    /\ UNCHANGED <<cfgVars, coordVars, sendCounters, prodVars, cancelled,
                   shutdownFlag, pc, retpc, insts, atCancel>>

----------------------------------------------------------------------------
\* The coordinator (run).

coordRest == <<cfgVars, sendCounters, cancelled, shutdownFlag, waiter, atCancel>>

\* The loop of line 263 one iteration short.
PoolSlicesOneShort == [i \in 1..(MaxRequests - 1) |-> i]

\* lines 262-265: the pool holds MaxRequests slices.
PoolSlices == [i \in 1..MaxRequests |-> i]

\* Line 259 with the size of the pool for the size of the buffer.
BufferCapacityOfPool == MaxRequests

\* line 259: the ring buffer is created with MaxBuffered slots.
BufferCapacity == MaxBuffered

\* lines 249-267: the buffer, the pool of slices and the completion channel.
RunInit ==
    /\ pc = "init"
    /\ Commit([W EXCEPT !.buff = NewInstanceRingBuffer(BufferCapacity),
                        !.chunkSliceCache = PoolSlices,
                        !.sliceMem = [i \in 1..MaxRequests |-> <<>>]])
    /\ pc' = "select"
    /\ UNCHANGED <<coordRest, prodVars, retpc, insts>>

\* Line 193 counting the batch as one record.
ReceivedCountOfBatches(b) == 1

\* line 193: every record of the batch is counted as received.
ReceivedCount(b) == Len(b)

\* A batch is received from InputChan and processInput starts (line 193).
RecvInput(ret) ==
    /\ InputReady
    /\ LET b == IF InputChan # <<>> THEN Head(InputChan) ELSE offer IN
          /\ insts' = b
          /\ Commit([W EXCEPT !.TotalReceived = @ + ReceivedCount(b)])
    /\ IF InputChan # <<>>
       THEN InputChan' = Tail(InputChan) /\ offer' = offer
       ELSE offer' = <<>> /\ InputChan' = InputChan
    /\ pc' = "processInput"
    /\ retpc' = ret
    /\ UNCHANGED <<coordRest, nextId>>

\* The loop also ending on a failed send.
CtxDoneOrSendFailed == cancelled \/ TotalFailedToSend > 0

\* lines 296, 313: ctx.Done() is ready.
CtxDone == cancelled

InSelect == pc \in {"select", "blocked"} /\ ~poolBlocked

\* lines 296-298, 313-315
SelectCtxDone ==
    /\ InSelect
    /\ CtxDone
    /\ pc' = "drainInput"
    /\ UNCHANGED <<coordRest, coordVars, prodVars, retpc, insts>>

\* lines 300-301, 320-321
SelectInput ==
    /\ InSelect
    /\ RecvInput("select")

\* lines 303-304, 317-318
SelectRequestDone ==
    /\ InSelect
    /\ requestDoneCh # <<>>
    /\ Commit(RecvDone(W))
    /\ pc' = "select"
    /\ UNCHANGED <<coordRest, prodVars, retpc, insts>>

\* lines 306-308: nothing is ready.
SelectDefault ==
    /\ pc = "select" /\ ~poolBlocked
    /\ ~CtxDone /\ ~InputReady /\ requestDoneCh = <<>>
    /\ Commit(tryToSendChunk(W))
    /\ pc' = "blocked"
    /\ UNCHANGED <<coordRest, prodVars, retpc, insts>>

\* lines 194-220: one record of the batch; processInput returns after the last.
ProcessInput ==
    /\ pc = "processInput" /\ ~poolBlocked
    /\ insts # <<>>
    /\ Commit(processOne(W, Head(insts)))
    /\ insts' = Tail(insts)
    /\ pc' = IF Tail(insts) = <<>> THEN retpc ELSE pc
    /\ UNCHANGED <<coordRest, prodVars, retpc>>

\* lines 279-282
DrainInput ==
    /\ pc = "drainInput" /\ ~poolBlocked
    /\ RecvInput("drainInput")

\* lines 283-284 and the deferred tryToSendChunk of line 278
DrainDefault ==
    /\ pc = "drainInput" /\ ~poolBlocked
    /\ ~InputReady
    /\ Commit(tryToSendChunk(W))
    /\ pc' = "waitForRequests"
    /\ UNCHANGED <<coordRest, prodVars, retpc, insts>>

\* The loop of line 270 leaving one request behind.
RequestsOutstandingButOne == requestsActive > 1

\* Line 270 with >= for >.
RequestsOutstandingOrNone == requestsActive >= 0

\* line 270: the condition of waitForRequests' loop.
RequestsOutstanding == requestsActive > 0

\* lines 270-273
WaitForRequests ==
    /\ pc = "waitForRequests" /\ ~poolBlocked
    /\ RequestsOutstanding
    /\ requestDoneCh # <<>>
    /\ Commit(RecvDone(W))
    /\ UNCHANGED <<coordRest, prodVars, pc, retpc, insts>>

\* line 270 false: waitForRequests, drainInput and run return.
RunReturn ==
    /\ pc = "waitForRequests" /\ ~poolBlocked
    /\ ~RequestsOutstanding
    /\ pc' = "returned"
    /\ UNCHANGED <<coordRest, coordVars, prodVars, retpc, insts>>

\* line 231
CloseShutdownFlag ==
    /\ pc = "returned"
    /\ shutdownFlag' = "closed"
    /\ pc' = "exited"
    /\ UNCHANGED <<cfgVars, coordVars, sendCounters, prodVars, cancelled,
                   retpc, insts, waiter, atCancel>>

----------------------------------------------------------------------------
\* The send goroutines (lines 175-187).

taskRest == <<cfgVars, prodVars, cancelled, shutdownFlag, pc, retpc, insts,
              waiter, atCancel, buff, requestsActive, totalWaiting,
              TotalReceived, TotalFilteredOut, TotalInFlight, TotalOverwritten,
              overwriteCalls, poolBlocked, arrived, rejected, dispatched,
              dropped, deferred, sliceMem>>

\* Lines 177-183 with the error ignored.
SendOutcomeAlwaysSent(t, err) ==
    /\ TotalSent' = TotalSent + Len(t.chunk)
    /\ TotalFailedToSend' = TotalFailedToSend

\* lines 177-183: the counter a returned SendFunc call adds to.
SendOutcome(t, err) ==
    IF err
    THEN /\ TotalFailedToSend' = TotalFailedToSend + Len(t.chunk)
         /\ TotalSent' = TotalSent
    ELSE /\ TotalSent' = TotalSent + Len(t.chunk)
         /\ TotalFailedToSend' = TotalFailedToSend

\* lines 176-183: SendFunc returns, with an error or without.
SendFuncReturns ==
    \E t \in tasks, err \in BOOLEAN :
        /\ t.st = "running"
        /\ tasks' = (tasks \ {t}) \cup
                    {[t EXCEPT !.st = IF err THEN "failed" ELSE "succeeded"]}
        /\ SendOutcome(t, err)
        /\ UNCHANGED <<taskRest, chunkSliceCache, requestDoneCh>>

\* line 185
ReturnSlice ==
    \E t \in tasks :
        /\ t.st \in {"failed", "succeeded"}
        /\ Len(chunkSliceCache) < MaxRequests
        /\ chunkSliceCache' = Append(chunkSliceCache, t.slice)
        /\ tasks' = (tasks \ {t}) \cup {[t EXCEPT !.st = "released"]}
        /\ UNCHANGED <<taskRest, sendCounters, requestDoneCh>>

\* line 186
SignalDone ==
    \E t \in tasks :
        /\ t.st = "released"
        /\ Len(requestDoneCh) < MaxRequests
        /\ requestDoneCh' = Append(requestDoneCh, Len(t.chunk))
        /\ tasks' = tasks \ {t}
        /\ UNCHANGED <<taskRest, sendCounters, chunkSliceCache>>

----------------------------------------------------------------------------
Next ==
    \/ Offer
    \/ ChanSend
    \/ Cancel
    \/ Start
    \/ WaitCall
    \/ WaitReturn
    \/ RunInit
    \/ SelectCtxDone
    \/ SelectInput
    \/ SelectRequestDone
    \/ SelectDefault
    \/ ProcessInput
    \/ DrainInput
    \/ DrainDefault
    \/ WaitForRequests
    \/ RunReturn
    \/ CloseShutdownFlag
    \/ SendFuncReturns
    \/ ReturnSlice
    \/ SignalDone

Spec == Init /\ [][Next]_vars

----------------------------------------------------------------------------
\* The writer under the scheduling Go gives it: the goroutine of run takes
\* its next step whenever it has one, every SendFunc call returns and the
\* goroutine that made it goes on to return its slice and to signal its
\* completion, and a caller of WaitForShutdown returns once the receive of
\* line 123 can proceed.  Producers and the canceller are not obliged to
\* act; the producers stop after MaxRecords records.

Coordinator ==
    \/ RunInit
    \/ SelectCtxDone
    \/ SelectInput
    \/ SelectRequestDone
    \/ SelectDefault
    \/ ProcessInput
    \/ DrainInput
    \/ DrainDefault
    \/ WaitForRequests
    \/ RunReturn
    \/ CloseShutdownFlag

Fairness ==
    /\ WF_vars(Coordinator)
    /\ WF_vars(SendFuncReturns)
    /\ WF_vars(ReturnSlice)
    /\ WF_vars(SignalDone)
    /\ WF_vars(WaitReturn)

SpecLive == Init /\ [][Next]_vars /\ Fairness

\* The same writer while ctx is never cancelled: the steps of the shutdown
\* path and the return of WaitForShutdown do not occur.
NextRunning ==
    \/ Offer
    \/ ChanSend
    \/ Start
    \/ WaitCall
    \/ RunInit
    \/ SelectInput
    \/ SelectRequestDone
    \/ SelectDefault
    \/ ProcessInput
    \/ SendFuncReturns
    \/ ReturnSlice
    \/ SignalDone

SpecRunning == Init /\ [][NextRunning]_vars /\ Fairness

----------------------------------------------------------------------------
\* The writer with MaxBuffered = 3, MaxRequests = 1, MaxBatchSize = 3 and a
\* buffered InputChan, given the records A to E (ids 1 to 5) in that order,
\* in batches of any lengths, and left to run without cancellation.

ScenarioSetup == <<3, 1, 3, 1, "nil">>

ScenarioRecords == <<"A", "B", "C", "D", "E">>

InitScenario == InitWith({ScenarioSetup})

OfferScenario == OfferUpTo(Len(ScenarioRecords), Len(ScenarioRecords))

NextScenario ==
    \/ OfferScenario
    \/ ChanSend
    \/ Start
    \/ RunInit
    \/ SelectInput
    \/ SelectRequestDone
    \/ SelectDefault
    \/ ProcessInput
    \/ SendFuncReturns
    \/ ReturnSlice
    \/ SignalDone

\* Every goroutine that can take a step is scheduled and every SendFunc call
\* returns: a step is taken as long as one is possible.
SpecScenario == InitScenario /\ [][NextScenario]_vars /\ WF_vars(NextScenario)

----------------------------------------------------------------------------
\* InternalMetrics (lines 328-341) called from another goroutine while the
\* loop runs: its reads, in the order of the source, one per step.

ReadOrder == <<"TotalSent", "TotalFailedToSend", "TotalFilteredOut",
               "TotalReceived", "TotalOverwritten", "buffered", "maxBuffered",
               "TotalInFlight", "totalWaiting", "requestsActive">>

\* lines 330-334, 337-339: read through atomic.LoadInt64; the two gauges of
\* the buffer (lines 335-336) are plain reads.
ReaderAtomic == {"TotalSent", "TotalFailedToSend", "TotalFilteredOut",
                 "TotalReceived", "TotalOverwritten", "TotalInFlight",
                 "totalWaiting", "requestsActive"}

\* lines 161, 180, 182, 193, 196, 201, 237: written through atomic.AddInt64;
\* requestsActive (162, 236), totalWaiting (148, 189) and the buffer (154,
\* 200) are plain writes.
WriterAtomic == {"TotalSent", "TotalFailedToSend", "TotalFilteredOut",
                 "TotalReceived", "TotalOverwritten", "TotalInFlight"}

InternalMetrics ==
    /\ pc \notin {"notStarted", "init"}
    /\ reader' = IF reader = Len(ReadOrder) THEN 0 ELSE reader + 1
    /\ UNCHANGED <<MaxBuffered, MaxRequests, MaxBatchSize, PreprocessFunc,
                   inputCap, coordVars, sendCounters, prodVars, cancelled,
                   shutdownFlag, pc, retpc, insts, waiter, atCancel>>

NextMetrics == Next \/ InternalMetrics

InitMetrics ==
    /\ Init
    /\ MaxBuffered = 1 /\ MaxRequests = 1 /\ MaxBatchSize = 1
    /\ inputCap = 1
    /\ PreprocessFunc = "filter"

SpecMetrics == InitMetrics /\ [][NextMetrics]_vars

\* The next step of the writer or of a send goroutine writes the field.
WriteEnabled(f) ==
    CASE f = "TotalSent" -> ENABLED (Next /\ TotalSent' # TotalSent)
      [] f = "TotalFailedToSend" ->
            ENABLED (Next /\ TotalFailedToSend' # TotalFailedToSend)
      [] f = "TotalFilteredOut" ->
            ENABLED (Next /\ TotalFilteredOut' # TotalFilteredOut)
      [] f = "TotalReceived" -> ENABLED (Next /\ TotalReceived' # TotalReceived)
      [] f = "TotalOverwritten" ->
            ENABLED (Next /\ TotalOverwritten' # TotalOverwritten)
      [] f = "buffered" -> ENABLED (Next /\ buff' # buff)
      [] f = "maxBuffered" -> ENABLED (Next /\ buff'.size # buff.size)
      [] f = "TotalInFlight" -> ENABLED (Next /\ TotalInFlight' # TotalInFlight)
      [] f = "totalWaiting" -> ENABLED (Next /\ totalWaiting' # totalWaiting)
      [] f = "requestsActive" ->
            ENABLED (Next /\ requestsActive' # requestsActive)

\* A data race: the reader is about to read the field, a write of it is
\* about to happen, and the two accesses are not both atomic.
Race(f) ==
    /\ reader > 0
    /\ ReadOrder[reader] = f
    /\ WriteEnabled(f)
    /\ ~(f \in ReaderAtomic /\ f \in WriterAtomic)

----------------------------------------------------------------------------
\* Properties.

Running == {t \in tasks : t.st = "running"}

Sent == Flatten(dispatched)

\* The record was passed to SendFunc exactly once and that call has returned.
SentOnceAndReturned(r) ==
    /\ Occurrences(Sent, r) = 1
    /\ \A t \in Running : r \notin Range(t.chunk)

ShutdownQuiescent ==
    /\ UnprocessedCount(buff) = 0
    /\ requestsActive = 0
    /\ TotalInFlight = 0

\* C1: at most MaxRequests SendFunc invocations execute at the same time.
C1_ConcurrencyBound == Cardinality(Running) <= MaxRequests

C1_Witness == MaxRequests = 2 /\ Cardinality(Running) = 2

\* C2 as stated: when WaitForShutdown returns, every record that was in
\* flight or buffered unsent at cancellation has been passed to SendFunc
\* exactly once, that call has returned, and the buffer, requestsActive and
\* TotalInFlight are 0.
C2_AllSentAtShutdown ==
    waiter = "returned" =>
        /\ \A r \in atCancel.inFlight \cup atCancel.buffered :
              SentOnceAndReturned(r)
        /\ ShutdownQuiescent

\* C2 amended: when WaitForShutdown returns, every record that was in flight
\* or buffered unsent at cancellation has been passed to SendFunc exactly
\* once with that call returned, or was overwritten in the ring buffer by
\* input processed after the cancellation and never passed to SendFunc; the
\* buffer, requestsActive and TotalInFlight are 0.
C2_AllSentOrOverwrittenAtShutdown ==
    waiter = "returned" =>
        /\ \A r \in atCancel.inFlight : SentOnceAndReturned(r)
        /\ \A r \in atCancel.buffered :
              \/ SentOnceAndReturned(r)
              \/ r \in dropped /\ Occurrences(Sent, r) = 0
        /\ ShutdownQuiescent

C2_Witness ==
    /\ waiter = "returned"
    /\ atCancel.inFlight # {}
    /\ atCancel.buffered # {}
    /\ \A r \in atCancel.buffered : SentOnceAndReturned(r)

\* C3: when WaitForShutdown returns, no batch accepted by InputChan is left
\* unread, and every record read was filtered out, overwritten or passed to
\* a SendFunc call that has returned.
C3_NoBatchLeftUnread ==
    waiter = "returned" =>
        /\ InputChan = <<>>
        /\ insts = <<>>
        /\ UnprocessedCount(buff) = 0
        /\ Running = {}

\* C4: a SendFunc call for n records that returns an error adds n to
\* TotalFailedToSend and leaves TotalSent, one that returns no error adds n
\* to TotalSent and leaves TotalFailedToSend; a record passed to SendFunc is
\* never again in the ring buffer nor passed to SendFunc a second time.
NeverResent ==
    /\ Cardinality(Range(Sent)) = Len(Sent)
    /\ Range(Sent) \cap Range(buff.items) = {}

C4_SendOutcomeCounted ==
    [][/\ \A t \in Running :
             LET n == Len(t.chunk) IN
             /\ [t EXCEPT !.st = "failed"] \in tasks' =>
                   /\ TotalFailedToSend' = TotalFailedToSend + n
                   /\ TotalSent' = TotalSent
             /\ [t EXCEPT !.st = "succeeded"] \in tasks' =>
                   /\ TotalSent' = TotalSent + n
                   /\ TotalFailedToSend' = TotalFailedToSend
       /\ NeverResent']_vars

C4_Witness ==
    /\ TotalFailedToSend > 0
    /\ TotalSent > 0
    /\ \E t \in tasks : t.st = "failed"

\* C5: the loop leaves its main loop, and shutdownFlag is closed, only after
\* the context is cancelled; until then the coordinator stays in the main
\* loop and a ready InputChan can be read.
C5_ExitOnlyAfterCancel ==
    ~cancelled =>
        /\ pc \in {"notStarted", "init", "select", "blocked", "processInput"}
        /\ shutdownFlag # "closed"
        /\ ~poolBlocked
        /\ (pc \in {"select", "blocked"} /\ InputReady) => ENABLED SelectInput

C5_Witness ==
    /\ ~cancelled
    /\ pc = "blocked"
    /\ TotalFailedToSend > 0
    /\ TotalOverwritten > 0
    /\ deferred

\* C6: after a dispatch was deferred at requestsActive = MaxRequests with
\* unprocessed records in the buffer, the step that handles the next send
\* completion dispatches a batch.
C6_BacklogDispatchedOnCompletion ==
    [][(deferred /\ Len(requestDoneCh') < Len(requestDoneCh))
          => /\ Len(dispatched') = Len(dispatched) + 1
             /\ dispatched'[Len(dispatched')] # <<>>
             /\ UnprocessedCount(buff') < UnprocessedCount(buff) + 1]_vars

C6_Witness ==
    /\ deferred
    /\ requestDoneCh # <<>>
    /\ pc = "blocked"
    /\ ~InputReady

\* C7: the records of the dispatched batches, in dispatch order, are a
\* subsequence of the records that passed the filter, in arrival order,
\* without repetition; a record that passed the filter and was not
\* dispatched is still buffered or was overwritten.
C7_DispatchOrder ==
    /\ IsSubsequence(Sent, arrived)
    /\ Range(arrived) \ Range(Sent) = Range(buff.items) \cup dropped

C7_Witness ==
    /\ Len(dispatched) >= 2
    /\ dropped # {}
    /\ Len(Sent) < Len(arrived)
    /\ UnprocessedCount(buff) = 0

\* C8: no read of InternalMetrics races with an unsynchronized write of the
\* same counter or gauge by the running writer.
C8_NoDataRace == \A i \in 1..Len(ReadOrder) : ~Race(ReadOrder[i])

\* C9: WaitForShutdown called before Start panics at once and never blocks;
\* called after Start it never panics, and it returns only once run has
\* returned and shutdownFlag is closed, and can return as soon as it is.
C9_WaitForShutdown ==
    [][/\ (waiter = "idle" /\ shutdownFlag = "nil") => waiter' # "waiting"
       /\ (waiter = "idle" /\ shutdownFlag # "nil") => waiter' # "panicked"
       /\ (waiter # "returned" /\ waiter' = "returned")
             => waiter = "waiting" /\ shutdownFlag = "closed" /\ pc = "exited"
       /\ (waiter = "waiting" /\ shutdownFlag = "closed")
             => ENABLED WaitReturn]_vars

C9_Witness == waiter = "panicked" /\ pc = "exited"

\* C10: TotalFilteredOut is the number of records PreprocessFunc rejected so
\* far; a rejected record is never in the ring buffer nor passed to SendFunc;
\* every other record processed so far was inserted into the ring buffer.
C10_FilteredOut ==
    /\ TotalFilteredOut = Cardinality(rejected)
    /\ \A r \in rejected :
          /\ PreprocessFunc = "filter" /\ r.v = 0
          /\ r \notin Range(arrived) \cup Range(buff.items) \cup Range(Sent)
    /\ \A r \in Range(arrived) : PreprocessFunc = "nil" \/ r.v # 0
    /\ Range(buff.items) \cup Range(Sent) \subseteq Range(arrived)
    /\ Cardinality(rejected) + Len(arrived) = TotalReceived - Len(insts)

C10_Witness ==
    /\ TotalFilteredOut = 2
    /\ Len(arrived) = 1
    /\ Len(Sent) = 1
    /\ insts = <<>>

----------------------------------------------------------------------------
\* C11: a call of tryToSendChunk with no unprocessed record in the buffer
\* changes nothing, below the request limit (line 157) and at it (line 148,
\* which then stores the zero totalWaiting already holds): TotalInFlight,
\* requestsActive, totalWaiting, the pool, the buffer, the set of send
\* goroutines and the list of dispatched batches are what they were.
C11_EmptyDispatchNoOp ==
    UnprocessedCount(buff) = 0 => tryToSendChunk(W) = W

\* The default branch of line 302 has just called tryToSendChunk on an empty
\* buffer with every request slot taken; another state of the same run had
\* a backlog recorded at the limit.
C11_Witness ==
    /\ pc = "blocked"
    /\ UnprocessedCount(buff) = 0
    /\ AtRequestLimit(W)
    /\ totalWaiting = 0
    /\ TotalOverwritten > 0

\* C12: cancellation is checked first.  Once ctx is cancelled, an evaluation
\* of the main loop's select (lines 295-323) takes the shutdown path: no step
\* taken from the select accepts an input batch, handles a completion or
\* starts a send.
C12_CancellationFirst ==
    [][(cancelled /\ InSelect)
          => UNCHANGED <<insts, TotalReceived, requestsActive, dispatched>>]_vars

\* C13: once run has set the pool up, the pool holds a slice whenever
\* requestsActive < MaxRequests, so the receive of line 131 finds one and
\* the coordinator never blocks in getChunkSlice; the pool never holds more
\* than MaxRequests slices, and it has room whenever a send goroutine is
\* about to return its slice (line 185).
C13_PoolNeverBlocks ==
    pc \notin {"notStarted", "init"} =>
        /\ ~poolBlocked
        /\ requestsActive < MaxRequests => chunkSliceCache # <<>>
        /\ Len(chunkSliceCache) <= MaxRequests
        /\ (\E t \in tasks : t.st \in {"failed", "succeeded"})
              => Len(chunkSliceCache) < MaxRequests

\* One of two slots is taken, a single slice is left in the pool and the
\* send holding the other slice is about to return it.
C13_Witness ==
    /\ MaxRequests = 2
    /\ requestsActive = 1
    /\ Len(chunkSliceCache) = 1
    /\ \E t \in tasks : t.st = "succeeded"
    /\ UnprocessedCount(buff) > 0

\* C14: from the creation of the ring buffer on (line 259), whatever Add and
\* NextBatch calls the writer has made, the buffer's Size() is MaxBuffered
\* and 0 <= UnprocessedCount() <= Size(), also while a batch longer than
\* MaxBuffered is being added record by record.
C14_BufferWithinCapacity ==
    pc \notin {"notStarted", "init"} =>
        /\ Size(buff) = MaxBuffered
        /\ 0 <= UnprocessedCount(buff)
        /\ UnprocessedCount(buff) <= Size(buff)

\* A buffer of one slot has taken three records, the last one into a full
\* buffer; batches of two records are among the input.
C14_Witness ==
    /\ MaxBuffered = 1
    /\ MaxBatchLen > MaxBuffered
    /\ TotalReceived = 3
    /\ Len(arrived) = 3
    /\ TotalOverwritten >= 1
    /\ UnprocessedCount(buff) = Size(buff)
    /\ insts = <<>>

\* What the writer has counted as overwritten is what the buffer dropped,
\* and a dropped record is neither buffered nor handed to SendFunc.
OverwritesCounted ==
    /\ TotalOverwritten = Cardinality(dropped)
    /\ overwriteCalls = Cardinality(dropped)
    /\ dropped \cap Range(Sent) = {}
    /\ dropped \cap Range(buff.items) = {}
    /\ dropped \subseteq Range(arrived)

\* C15: an Add (line 200) on a buffer that holds Size() unprocessed records
\* reports an overwrite and drops exactly the oldest unprocessed record, and
\* no later NextBatch returns that record; an Add on a buffer that holds
\* fewer drops and counts nothing.  TotalOverwritten and the calls of
\* OverwriteFunc (when it is set) both equal the number of dropped records.
C15_OverwriteDropsOldest ==
    /\ []OverwritesCounted
    /\ [][arrived' # arrived =>
            IF UnprocessedCount(buff) >= Size(buff)
            THEN /\ dropped' = dropped \cup {Head(buff.items)}
                 /\ Head(buff.items) \notin dropped
                 /\ TotalOverwritten' = TotalOverwritten + 1
                 /\ overwriteCalls' = overwriteCalls + 1
            ELSE UNCHANGED <<dropped, TotalOverwritten, overwriteCalls>>]_vars

\* An Add found the buffer full, and the record it added was handed to
\* SendFunc after the one it replaced was dropped.
C15_Witness ==
    /\ TotalOverwritten = 1
    /\ dropped # {}
    /\ \E r \in Range(Sent) : \A d \in dropped : d.id < r.id

----------------------------------------------------------------------------
\* The names of the records in a set or a sequence of the scenario.
Named(rs) == {ScenarioRecords[r.id] : r \in rs}

\* The records of the scenario that were added and not dropped, in the order
\* of their insertion.
Survivors == SelectSeq(arrived, LAMBDA r : r \notin dropped)

\* All five records were taken from InputChan and nothing is left to do.
ScenarioQuiet ==
    /\ Len(arrived) = Len(ScenarioRecords)
    /\ insts = <<>>
    /\ UnprocessedCount(buff) = 0
    /\ requestsActive = 0

\* C16 as stated: in the scenario one overwrite occurs, of the oldest of
\* A, B, C still buffered, and the sink receives exactly the surviving
\* records in insertion order.
C16_OneOverwrite ==
    ScenarioQuiet =>
        /\ TotalOverwritten = 1
        /\ Cardinality(dropped) = 1
        /\ Named(dropped) \subseteq {"A", "B", "C"}
        /\ Sent = Survivors

\* C16 with the count of overwrites the code can produce: in the scenario at
\* most one overwrite occurs (none when A, B, C are dispatched as one batch
\* the moment C is added; one when A went out alone and is still in flight
\* as E arrives), the dropped record then is B, the oldest record buffered
\* at that moment, and the sink eventually has received exactly the
\* surviving records in insertion order.
C16_AtMostOneOverwrite ==
    /\ [](/\ TotalOverwritten <= 1
          /\ Cardinality(dropped) = TotalOverwritten
          /\ Named(dropped) \subseteq {"B"}
          /\ IsSubsequence(Sent, Survivors)
          /\ ScenarioQuiet => Sent = Survivors)
    /\ <>[](ScenarioQuiet /\ Sent = Survivors)

\* The run with the overwrite: B was dropped and A, C, D, E reached the sink.
C16_Witness ==
    /\ ScenarioQuiet
    /\ TotalOverwritten = 1
    /\ Named(dropped) = {"B"}
    /\ Named(Range(Sent)) = {"A", "C", "D", "E"}

----------------------------------------------------------------------------
\* C17: every batch handed to SendFunc (line 176), those of the running
\* calls and those of the calls that returned, has at least 1 and at most
\* MaxBatchSize records.
C17_BatchSizeWithinLimits ==
    /\ \A t \in tasks : Len(t.chunk) >= 1 /\ Len(t.chunk) <= MaxBatchSize
    /\ \A i \in 1..Len(dispatched) :
          Len(dispatched[i]) >= 1 /\ Len(dispatched[i]) <= MaxBatchSize

\* A batch of MaxBatchSize records was cut from a longer backlog: its send is
\* running and line 189 recorded the records left behind.
C17_Witness ==
    /\ MaxBuffered > MaxBatchSize
    /\ \E t \in tasks : t.st = "running" /\ Len(t.chunk) = MaxBatchSize
    /\ totalWaiting > 0
    /\ ~deferred
    /\ UnprocessedCount(buff) > 0

\* The send goroutines whose slice is theirs: from the copy of line 168 to
\* the return of the slice at line 185.
Holders == {t \in tasks : t.st \in {"running", "failed", "succeeded"}}

\* C18: a pooled slice is held by at most one send goroutine at a time and
\* is not in the pool while it is held; the only writes to a slice, those of
\* getChunkSlice and of the copy (lines 131-141, 168), go to a slice just
\* taken from the pool, so that while SendFunc runs the slice it was given
\* still holds the batch that was copied into it.
C18_SliceNotShared ==
    /\ \A t1, t2 \in Holders : t1 # t2 => t1.slice # t2.slice
    /\ \A t \in Holders : t.slice \notin Range(chunkSliceCache)
    /\ \A t \in tasks : t.st = "running" => sliceMem[t.slice] = t.chunk

\* Two sends run, each on its own slice, one of them on a slice that an
\* earlier send used and returned.
C18_Witness ==
    /\ Cardinality({t \in tasks : t.st = "running"}) = 2
    /\ Len(dispatched) = 3

----------------------------------------------------------------------------
\* C19: once ctx is cancelled and Start was called, the loop exits (run
\* returns and shutdownFlag is closed), whatever is buffered, in flight or
\* still offered on InputChan; and a caller blocked in WaitForShutdown
\* returns.
C19_ShutdownCompletes ==
    /\ (cancelled /\ pc # "notStarted") ~> (pc = "exited")
    /\ (cancelled /\ waiter = "waiting") ~> (waiter = "returned")

\* The shutdown path with more buffered than one batch takes and a send in
\* flight: it has to wait for the completion (line 272) before the rest of
\* the backlog can go out.
C19_Witness ==
    /\ pc = "waitForRequests"
    /\ waiter = "waiting"
    /\ UnprocessedCount(buff) > MaxBatchSize
    /\ requestsActive = MaxRequests
    /\ tasks # {}

----------------------------------------------------------------------------
RECURSIVE SumSeq(_)
SumSeq(s) == IF s = <<>> THEN 0 ELSE Head(s) + SumSeq(Tail(s))

\* The records of the batches whose send goroutine has not signalled yet.
RecordsWithTasks == UNION {Range(t.chunk) : t \in tasks}

\* C20: between the coordinator's steps requestsActive is the number of
\* dispatched batches whose completion it has not handled (the goroutine
\* still exists or its count waits in requestDoneCh) and TotalInFlight is
\* the number of records in those batches, in whatever order the sends
\* complete; so 0 <= requestsActive <= MaxRequests and
\* 0 <= TotalInFlight <= MaxRequests * MaxBatchSize.
C20_CountersMatchOutstanding ==
    /\ requestsActive = Cardinality(tasks) + Len(requestDoneCh)
    /\ TotalInFlight = Cardinality(RecordsWithTasks) + SumSeq(requestDoneCh)
    /\ 0 <= requestsActive
    /\ pc \notin {"notStarted", "init"} => requestsActive <= MaxRequests
    /\ 0 <= TotalInFlight
    /\ TotalInFlight <= MaxRequests * MaxBatchSize

\* The second of two batches has completed, with its count of 2 waiting in
\* requestDoneCh, while the send of the first is still running.
C20_Witness ==
    /\ Len(dispatched) = 2
    /\ \E t \in tasks : t.st = "running" /\ t.chunk = dispatched[1]
    /\ requestDoneCh = <<Len(dispatched[2])>>
    /\ requestsActive = 2
    /\ TotalInFlight = 3

----------------------------------------------------------------------------
\* C21: once run has returned, every record read from InputChan is counted
\* in exactly one of the four outcomes:
\* TotalReceived = TotalFilteredOut + TotalOverwritten + TotalSent +
\* TotalFailedToSend.
C21_RecordConservation ==
    pc \in {"returned", "exited"} =>
        TotalReceived =
            TotalFilteredOut + TotalOverwritten + TotalSent + TotalFailedToSend

\* The loop has exited after a run in which a record was overwritten, a
\* send succeeded and a send failed.
C21_Witness ==
    /\ pc = "exited"
    /\ TotalReceived = MaxRecords
    /\ TotalOverwritten > 0
    /\ TotalSent > 0
    /\ TotalFailedToSend > 0

\* C22: with MaxBatchSize <= MaxBuffered, an Add (line 200) overwrites a
\* record only when requestsActive = MaxRequests; with a request slot free,
\* the record is added without overwrite and a batch is dispatched in the
\* same iteration of processInput's loop if the count has reached
\* MaxBatchSize, whatever the length of the input batch.
C22_OverwriteOnlyAtLimit ==
    [][(MaxBatchSize <= MaxBuffered /\ arrived' # arrived) =>
          /\ dropped' # dropped => requestsActive = MaxRequests
          /\ requestsActive < MaxRequests =>
                /\ dropped' = dropped
                /\ UnprocessedCount(buff) + 1 >= MaxBatchSize
                      => Len(dispatched') > Len(dispatched)]_vars

\* In the middle of an input batch, with more records received than the
\* buffer holds: the record just added filled a batch, which was dispatched
\* in the same iteration, and no record was overwritten.
C22_Witness ==
    /\ MaxBatchSize <= MaxBuffered
    /\ pc = "processInput"
    /\ insts # <<>>
    /\ TotalReceived > MaxBuffered
    /\ dispatched # <<>>
    /\ arrived # <<>>
    /\ dispatched[Len(dispatched)][Len(dispatched[Len(dispatched)])] =
          arrived[Len(arrived)]
    /\ TotalOverwritten = 0

----------------------------------------------------------------------------
\* C23: without cancellation, whenever the coordinator is blocked in the
\* select of line 306, the buffer has no unprocessed record or requestsActive
\* is MaxRequests; and once input has stopped and the sends have returned,
\* every record that was added has been handed to SendFunc or was
\* overwritten by later input, and the buffer stays empty.
C23_NoStrandedBacklog ==
    /\ [](pc = "blocked" =>
             UnprocessedCount(buff) = 0 \/ requestsActive = MaxRequests)
    /\ <>[](pc = "notStarted" \/
              /\ UnprocessedCount(buff) = 0
              /\ insts = <<>>
              /\ Range(arrived) \subseteq Range(Sent) \cup dropped)

\* A completion has just been handled with totalWaiting = 0 and a record
\* buffered: handleRequestDone sent nothing, the slot is free and the record
\* waits for the default branch of line 302.
C23_Witness ==
    /\ ~cancelled
    /\ pc = "select"
    /\ dispatched # <<>>
    /\ tasks = {}
    /\ requestDoneCh = <<>>
    /\ requestsActive = 0
    /\ totalWaiting = 0
    /\ UnprocessedCount(buff) > 0

====
